---- MODULE Spec2Model ----
(***************************************************************************)
(* Model of the connection pool (db/pool.py) and of the cache with its     *)
(* optional admission gate (cache/cache.py), as used by the API service    *)
(* (api/app.py), the database service (db/service.py) and the pool         *)
(* harness (tests/pool_harness.py).                                        *)
(*                                                                         *)
(* Scheduling: the code runs as asyncio tasks on one event loop.  A task   *)
(* runs without interruption until it awaits something that is not ready,  *)
(* so one action of the model is the code a task executes between two      *)
(* suspension points.  asyncio.Lock is only ever held over code without    *)
(* an await (pool.py:74-76, 91-93, 108-110, 112-114, 126-128 and           *)
(* cache.py:99-102), so it is free whenever a task is scheduled and        *)
(* `async with self._lock` never suspends.  The suspension points are      *)
(* Semaphore.acquire on a semaphore without a free slot (pool.py:86, 89;   *)
(* cache.py:92) and the caller supplied loader (cache.py:93, 97).          *)
(*                                                                         *)
(* asyncio.Semaphore is modelled as CPython implements it: a counter of    *)
(* free slots and a FIFO queue of waiter futures; release() hands the slot *)
(* to the first pending waiter, which takes it when it is next scheduled;  *)
(* a waiter that is cancelled after the hand-off gives the slot back.      *)
(***************************************************************************)
EXTENDS Integers, Sequences, FiniteSets, TLC

\* ---- bounds of the model -------------------------------------------------
NumTasks == 3          \* concurrent callers
MaxPoolSize == 2       \* max_connections ranges over 1..MaxPoolSize
MaxLoads == 2          \* CACHE_MAX_LOADS ranges over 1..MaxLoads
MaxCalls == 4          \* total number of acquire / get / clear calls issued
MaxReleaseCalls == 2   \* explicit release() calls on one handle before __aexit__

Tasks == 1..NumTasks
Keys == {"k1", "k2"}
Values == {"v1", "v2"}
Absent == "absent"
NoKey == "none"

\* The call completed by a step and what it hands to its caller:
\*   kind "none"           the step completes no call
\*        "handle"         acquire returned a _PoolConnection
\*        "PoolTimeout"    acquire raised PoolTimeout
\*        "Cancelled"      CancelledError left acquire (key = NoKey) or get(key)
\*        "value"          get(key) returned [value, hit, miss]
\*        "LoaderFailure"  the loader's exception left get(key)
\*        "evicted"        clear returned count
Ret(kind, k, value, hit, miss, count) ==
    [kind |-> kind, key |-> k, value |-> value, hit |-> hit, miss |-> miss,
     count |-> count]
Raised(kind, k) == Ret(kind, k, "none", 0, 0, 0)
NoRet == Raised("none", NoKey)

VARIABLES
    \* ConnectionPool
    maxConnections,   \* _max_connections
    semValue,         \* _semaphore._value: free slots
    semWaiters,       \* _semaphore._waiters: FIFO of tasks suspended in acquire
    active,           \* _active
    waiting,          \* _waiting
    timeoutCount,     \* _timeout_count
    \* _PoolConnection of each task
    released,         \* _released of the task's handle (TRUE while it has none)
    relCalls,         \* release() calls made on the task's current handle
    \* Cache
    contained,        \* _contained (CONTAINED_CACHE)
    maxLoads,         \* MAX_CONCURRENT_LOADS
    gateValue,        \* _load_semaphore._value
    gateWaiters,      \* _load_semaphore._waiters
    store,            \* _store
    hits,
    misses,
    loaderCalls,      \* number of loader() invocations started
    \* tasks
    pc,               \* where each task is suspended
    fut,              \* state of the semaphore waiter future of the task
    cancelReq,        \* pending cancellation of the task: none / cancel / timeout
    hasDeadline,      \* the task's acquire was called with a timeout
    key,              \* key of the task's get call
    calls,            \* calls issued so far
    ret               \* what the step just taken returned or raised to its caller

poolVars == <<maxConnections, semValue, semWaiters, active, waiting,
              timeoutCount, released, relCalls, hasDeadline>>
cacheVars == <<contained, maxLoads, gateValue, gateWaiters, store, hits,
               misses, loaderCalls, key>>
taskVars == <<pc, fut, cancelReq, calls, ret>>
vars == <<poolVars, cacheVars, taskVars>>

\* ---- asyncio.Semaphore ---------------------------------------------------

\* mutant: the free-slot test is off by one
SemLockedOffByOne(value, waiters, f) ==
    value < 0 \/ \E i \in 1..Len(waiters) : f[waiters[i]] # "cancelled"

\* Semaphore.locked(): no free slot, or a waiter that is not cancelled
SemLocked(value, waiters, f) ==
    value = 0 \/ \E i \in 1..Len(waiters) : f[waiters[i]] # "cancelled"

Pending(waiters, f) == {i \in 1..Len(waiters) : f[waiters[i]] = "pending"}

FirstPending(waiters, f) ==
    waiters[CHOOSE i \in Pending(waiters, f) :
                \A j \in Pending(waiters, f) : i <= j]

\* `while self._value > 0: if not self._wake_up_next(): break`
RECURSIVE WakeWaiters(_, _, _)
WakeWaiters(value, waiters, f) ==
    IF value > 0 /\ Pending(waiters, f) # {}
    THEN WakeWaiters(value - 1, waiters,
                     [f EXCEPT ![FirstPending(waiters, f)] = "granted"])
    ELSE [value |-> value, fut |-> f]

\* mutant: release only increments the counter and wakes nobody
SemReleaseNoWake(value, waiters, f) == [value |-> value + 1, fut |-> f]

\* mutant: the released slot is counted free and also handed to a waiter
SemReleaseCountedTwice(value, waiters, f) ==
    IF Pending(waiters, f) # {}
    THEN [value |-> value + 1,
          fut |-> [f EXCEPT ![FirstPending(waiters, f)] = "granted"]]
    ELSE [value |-> value + 1, fut |-> f]

\* Semaphore.release(): value += 1, then hand the slot to the first pending waiter
SemRelease(value, waiters, f) ==
    IF Pending(waiters, f) # {}
    THEN [value |-> value,
          fut |-> [f EXCEPT ![FirstPending(waiters, f)] = "granted"]]
    ELSE [value |-> value + 1, fut |-> f]

Remove(waiters, t) == SelectSeq(waiters, LAMBDA x : x # t)

\* mutant: a waiter cancelled after the hand-off keeps the slot
SemResumeLeak(value, waiters, f, t, cancelled) ==
    LET w == Remove(waiters, t)
        r == WakeWaiters(value, w, [f EXCEPT ![t] = "none"])
    IN  [value |-> r.value, waiters |-> w, fut |-> r.fut]

\* Semaphore.acquire() of a suspended waiter t being resumed: the waiter leaves
\* the queue; if it was cancelled after the slot had been handed to it, the
\* slot goes back; then waiters are woken while slots are free.
SemResume(value, waiters, f, t, cancelled) ==
    LET w == Remove(waiters, t)
        v == IF cancelled /\ f[t] = "granted" THEN value + 1 ELSE value
        r == WakeWaiters(v, w, [f EXCEPT ![t] = "none"])
    IN  [value |-> r.value, waiters |-> w, fut |-> r.fut]

\* ---- initial state -------------------------------------------------------

Init ==
    /\ maxConnections \in 1..MaxPoolSize
    /\ semValue = maxConnections
    /\ semWaiters = <<>>
    /\ active = 0
    /\ waiting = 0
    /\ timeoutCount = 0
    /\ released = [t \in Tasks |-> TRUE]
    /\ relCalls = [t \in Tasks |-> 0]
    /\ contained \in BOOLEAN
    /\ maxLoads \in (IF contained THEN 1..MaxLoads ELSE {MaxLoads})
    /\ gateValue = IF contained THEN maxLoads ELSE 0
    /\ gateWaiters = <<>>
    /\ store = [k \in Keys |-> Absent]
    /\ hits = 0
    /\ misses = 0
    /\ loaderCalls = 0
    /\ pc = [t \in Tasks |-> "idle"]
    /\ fut = [t \in Tasks |-> "none"]
    /\ cancelReq = [t \in Tasks |-> "none"]
    /\ hasDeadline = [t \in Tasks |-> FALSE]
    /\ key = [t \in Tasks |-> NoKey]
    /\ calls = 0
    /\ ret = NoRet

\* ---- callers ---------------------------------------------------------------

\* The task that issues the next call.  Tasks that are not inside a call are
\* indistinguishable (create_task gives each request a fresh task), so the
\* next call is always issued by the lowest-numbered idle task.
NextCaller(t) ==
    /\ pc[t] = "idle"
    /\ \A u \in Tasks : pc[u] = "idle" => t <= u
    /\ calls < MaxCalls

\* ---- ConnectionPool ------------------------------------------------------

\* ConnectionPool.acquire up to its first suspension point: waiting += 1, then
\* either the semaphore has a free slot and the call completes at once
\* (waiting -= 1, active += 1, a handle is returned) or the task suspends.
Acquire(t, d) ==
    /\ NextCaller(t)
    /\ calls' = calls + 1
    /\ IF ~SemLocked(semValue, semWaiters, fut)
       THEN /\ semValue' = semValue - 1
            /\ waiting' = (waiting + 1) - 1
            /\ active' = active + 1
            /\ released' = [released EXCEPT ![t] = FALSE]
            /\ relCalls' = [relCalls EXCEPT ![t] = 0]
            /\ pc' = [pc EXCEPT ![t] = "holding"]
            /\ ret' = Raised("handle", NoKey)
            /\ UNCHANGED <<semWaiters, fut, hasDeadline>>
       ELSE /\ waiting' = waiting + 1
            /\ semWaiters' = Append(semWaiters, t)
            /\ fut' = [fut EXCEPT ![t] = "pending"]
            /\ hasDeadline' = [hasDeadline EXCEPT ![t] = d]
            /\ pc' = [pc EXCEPT ![t] = "acquiring"]
            /\ ret' = NoRet
            /\ UNCHANGED <<semValue, active, released, relCalls>>
    /\ UNCHANGED <<maxConnections, timeoutCount, cancelReq>>
    /\ UNCHANGED cacheVars

\* mutant: waiting is decremented on the success path only
LeaveWaitOnSuccessOnly(outcome) ==
    waiting' = IF outcome = "handle" THEN waiting - 1 ELSE waiting

\* mutant: a cancelled wait skips the decrement
LeaveWaitExceptCancelled(outcome) ==
    waiting' = IF outcome = "Cancelled" THEN waiting ELSE waiting - 1

\* finally-block of acquire: waiting -= 1 on every exit from the wait
LeaveWait(outcome) == waiting' = waiting - 1

\* The suspended acquire is resumed with the slot a release handed to it:
\* finally-block waiting -= 1, then active += 1 and the handle is returned.
AcquireResume(t) ==
    /\ pc[t] = "acquiring"
    /\ fut[t] = "granted"
    /\ cancelReq[t] = "none"
    /\ LET r == SemResume(semValue, semWaiters, fut, t, FALSE)
       IN  /\ semValue' = r.value
           /\ semWaiters' = r.waiters
           /\ fut' = r.fut
    /\ LeaveWait("handle")
    /\ active' = active + 1
    /\ released' = [released EXCEPT ![t] = FALSE]
    /\ relCalls' = [relCalls EXCEPT ![t] = 0]
    /\ hasDeadline' = [hasDeadline EXCEPT ![t] = FALSE]
    /\ pc' = [pc EXCEPT ![t] = "holding"]
    /\ ret' = Raised("handle", NoKey)
    /\ UNCHANGED <<maxConnections, timeoutCount, cancelReq, calls>>
    /\ UNCHANGED cacheVars

\* The timer of asyncio.wait_for fires: the waiting task is cancelled by the
\* timeout; a still pending waiter future becomes cancelled.
DeadlineElapses(t) ==
    /\ pc[t] = "acquiring"
    /\ hasDeadline[t]
    /\ cancelReq[t] = "none"
    /\ cancelReq' = [cancelReq EXCEPT ![t] = "timeout"]
    /\ fut' = [fut EXCEPT ![t] = IF @ = "pending" THEN "cancelled" ELSE @]
    /\ ret' = NoRet
    /\ UNCHANGED <<pc, calls>>
    /\ UNCHANGED <<poolVars, cacheVars>>

\* The timed-out acquire runs again: TimeoutError is caught, timeout_count += 1,
\* PoolTimeout is raised through the finally-block (waiting -= 1).
AcquireTimeout(t) ==
    /\ pc[t] = "acquiring"
    /\ cancelReq[t] = "timeout"
    /\ LET r == SemResume(semValue, semWaiters, fut, t, TRUE)
       IN  /\ semValue' = r.value
           /\ semWaiters' = r.waiters
           /\ fut' = r.fut
    /\ timeoutCount' = timeoutCount + 1
    /\ LeaveWait("PoolTimeout")
    /\ hasDeadline' = [hasDeadline EXCEPT ![t] = FALSE]
    /\ pc' = [pc EXCEPT ![t] = "idle"]
    /\ cancelReq' = [cancelReq EXCEPT ![t] = "none"]
    /\ ret' = Raised("PoolTimeout", NoKey)
    /\ UNCHANGED <<maxConnections, active, released, relCalls, calls>>
    /\ UNCHANGED cacheVars

\* The cancelled acquire runs again: CancelledError passes through the
\* finally-block (waiting -= 1) to the caller.
AcquireCancelled(t) ==
    /\ pc[t] = "acquiring"
    /\ cancelReq[t] = "cancel"
    /\ LET r == SemResume(semValue, semWaiters, fut, t, TRUE)
       IN  /\ semValue' = r.value
           /\ semWaiters' = r.waiters
           /\ fut' = r.fut
    /\ LeaveWait("Cancelled")
    /\ hasDeadline' = [hasDeadline EXCEPT ![t] = FALSE]
    /\ pc' = [pc EXCEPT ![t] = "idle"]
    /\ cancelReq' = [cancelReq EXCEPT ![t] = "none"]
    /\ ret' = Raised("Cancelled", NoKey)
    /\ UNCHANGED <<maxConnections, active, timeoutCount, released, relCalls, calls>>
    /\ UNCHANGED cacheVars

\* mutant: the slot goes back to the semaphore but active keeps counting it
PoolReleaseUncounted ==
    /\ active' = active
    /\ LET r == SemRelease(semValue, semWaiters, fut)
       IN  /\ semValue' = r.value
           /\ fut' = r.fut

\* ConnectionPool._release: active -= 1, then the slot goes back to the semaphore
PoolRelease ==
    /\ active' = active - 1
    /\ LET r == SemRelease(semValue, semWaiters, fut)
       IN  /\ semValue' = r.value
           /\ fut' = r.fut

\* mutant: no one-shot guard
ConnReleaseUnguarded(t) ==
    /\ released' = [released EXCEPT ![t] = TRUE]
    /\ PoolRelease

\* _PoolConnection.release: one-shot guard around ConnectionPool._release
ConnRelease(t) ==
    IF ~released[t]
    THEN /\ released' = [released EXCEPT ![t] = TRUE]
         /\ PoolRelease
    ELSE UNCHANGED <<released, active, semValue, fut>>

\* An explicit handle.release() inside the `async with` body
Release(t) ==
    /\ pc[t] = "holding"
    /\ relCalls[t] < MaxReleaseCalls
    /\ relCalls' = [relCalls EXCEPT ![t] = @ + 1]
    /\ ConnRelease(t)
    /\ ret' = NoRet
    /\ UNCHANGED <<maxConnections, semWaiters, waiting, timeoutCount, hasDeadline>>
    /\ UNCHANGED <<pc, cancelReq, calls>>
    /\ UNCHANGED cacheVars

\* mutant: leaving the `async with` block does not release the handle
ExitWithoutRelease(t) ==
    /\ pc[t] = "holding"
    /\ released' = [released EXCEPT ![t] = TRUE]
    /\ relCalls' = [relCalls EXCEPT ![t] = 0]
    /\ pc' = [pc EXCEPT ![t] = "idle"]
    /\ ret' = NoRet
    /\ UNCHANGED <<maxConnections, semValue, semWaiters, active, waiting,
                   timeoutCount, hasDeadline>>
    /\ UNCHANGED <<fut, cancelReq, calls>>
    /\ UNCHANGED cacheVars

\* _PoolConnection.__aexit__: the `async with` block is left, on any path, and
\* the handle is dropped
Exit(t) ==
    /\ pc[t] = "holding"
    /\ ConnRelease(t)
    /\ relCalls' = [relCalls EXCEPT ![t] = 0]
    /\ pc' = [pc EXCEPT ![t] = "idle"]
    /\ ret' = NoRet
    /\ UNCHANGED <<maxConnections, semWaiters, waiting, timeoutCount, hasDeadline>>
    /\ UNCHANGED <<cancelReq, calls>>
    /\ UNCHANGED cacheVars

\* The task is cancelled while suspended (the client went away)
Cancel(t) ==
    /\ pc[t] \in {"acquiring", "gate", "loading"}
    /\ cancelReq[t] = "none"
    /\ cancelReq' = [cancelReq EXCEPT ![t] = "cancel"]
    /\ fut' = [fut EXCEPT ![t] = IF @ = "pending" THEN "cancelled" ELSE @]
    /\ ret' = NoRet
    /\ UNCHANGED <<pc, calls>>
    /\ UNCHANGED <<poolVars, cacheVars>>

NextPool ==
    \E t \in Tasks :
        \/ \E d \in BOOLEAN : Acquire(t, d)
        \/ AcquireResume(t)
        \/ DeadlineElapses(t)
        \/ AcquireTimeout(t)
        \/ AcquireCancelled(t)
        \/ Release(t)
        \/ Exit(t)
        \/ Cancel(t)

InitPool == Init /\ ~contained

SpecPool == InitPool /\ [][NextPool]_vars

\* The event loop runs every task that is ready (a resumed, timed-out or
\* cancelled acquire), and the body of every `async with` block ends.
FairPool ==
    /\ SpecPool
    /\ \A t \in Tasks :
          /\ WF_vars(AcquireResume(t))
          /\ WF_vars(AcquireTimeout(t))
          /\ WF_vars(AcquireCancelled(t))
          /\ WF_vars(Exit(t))

\* ---- Cache ----------------------------------------------------------------

\* mutant: the slot is counted back but the waiter at the head is not woken
GateReleaseNoHandOff ==
    IF contained
    THEN /\ gateValue' = gateValue + 1
         /\ fut' = fut
    ELSE UNCHANGED <<gateValue, fut>>

\* `async with self._load_semaphore` left: the gate slot goes back (contained only)
GateRelease ==
    IF contained
    THEN LET r == SemRelease(gateValue, gateWaiters, fut)
         IN  /\ gateValue' = r.value
             /\ fut' = r.fut
    ELSE UNCHANGED <<gateValue, fut>>

\* mutant: the gate is consulted whatever the policy
MustWaitAtGateAnyPolicy == SemLocked(gateValue, gateWaiters, fut)

\* `if self._contained: async with self._load_semaphore` has to suspend
MustWaitAtGate == contained /\ SemLocked(gateValue, gateWaiters, fut)

\* Cache.get up to its first suspension point: the fast path returns a stored
\* value; a miss counts itself and then either starts the loader (speed-first,
\* or contained with a free gate slot) or suspends at the gate.
Get(t, k) ==
    /\ NextCaller(t)
    /\ calls' = calls + 1
    /\ IF store[k] # Absent
       THEN /\ hits' = hits + 1
            /\ ret' = Ret("value", k, store[k], 1, 0, 0)
            /\ UNCHANGED <<misses, loaderCalls, gateValue, gateWaiters, key,
                           pc, fut>>
       ELSE /\ misses' = misses + 1
            /\ key' = [key EXCEPT ![t] = k]
            /\ ret' = NoRet
            /\ hits' = hits
            /\ IF MustWaitAtGate
               THEN /\ gateWaiters' = Append(gateWaiters, t)
                    /\ fut' = [fut EXCEPT ![t] = "pending"]
                    /\ pc' = [pc EXCEPT ![t] = "gate"]
                    /\ UNCHANGED <<gateValue, loaderCalls>>
               ELSE /\ gateValue' = IF contained THEN gateValue - 1 ELSE gateValue
                    /\ loaderCalls' = loaderCalls + 1
                    /\ pc' = [pc EXCEPT ![t] = "loading"]
                    /\ UNCHANGED <<gateWaiters, fut>>
    /\ UNCHANGED <<contained, maxLoads, store, cancelReq>>
    /\ UNCHANGED poolVars

\* mutant: the store is looked up again once the gate slot is obtained
GateResumeRechecks(t) ==
    /\ pc[t] = "gate"
    /\ fut[t] = "granted"
    /\ cancelReq[t] = "none"
    /\ LET r == SemResume(gateValue, gateWaiters, fut, t, FALSE)
           back == SemRelease(r.value, r.waiters, r.fut)
       IN  IF store[key[t]] # Absent
           THEN /\ gateValue' = back.value
                /\ gateWaiters' = r.waiters
                /\ fut' = back.fut
                /\ pc' = [pc EXCEPT ![t] = "idle"]
                /\ key' = [key EXCEPT ![t] = NoKey]
                /\ ret' = Ret("value", key[t], store[key[t]], 0, 1, 0)
                /\ UNCHANGED loaderCalls
           ELSE /\ gateValue' = r.value
                /\ gateWaiters' = r.waiters
                /\ fut' = r.fut
                /\ loaderCalls' = loaderCalls + 1
                /\ pc' = [pc EXCEPT ![t] = "loading"]
                /\ ret' = NoRet
                /\ UNCHANGED key
    /\ UNCHANGED <<contained, maxLoads, store, hits, misses, cancelReq, calls>>
    /\ UNCHANGED poolVars

\* The get suspended at the gate is resumed with the slot handed to it and
\* starts its loader.
GateResume(t) ==
    /\ pc[t] = "gate"
    /\ fut[t] = "granted"
    /\ cancelReq[t] = "none"
    /\ LET r == SemResume(gateValue, gateWaiters, fut, t, FALSE)
       IN  /\ gateValue' = r.value
           /\ gateWaiters' = r.waiters
           /\ fut' = r.fut
    /\ loaderCalls' = loaderCalls + 1
    /\ pc' = [pc EXCEPT ![t] = "loading"]
    /\ ret' = NoRet
    /\ UNCHANGED <<contained, maxLoads, store, hits, misses, key, cancelReq, calls>>
    /\ UNCHANGED poolVars

\* The get cancelled at the gate runs again: CancelledError leaves get.
GateCancelled(t) ==
    /\ pc[t] = "gate"
    /\ cancelReq[t] = "cancel"
    /\ LET r == SemResume(gateValue, gateWaiters, fut, t, TRUE)
       IN  /\ gateValue' = r.value
           /\ gateWaiters' = r.waiters
           /\ fut' = r.fut
    /\ pc' = [pc EXCEPT ![t] = "idle"]
    /\ key' = [key EXCEPT ![t] = NoKey]
    /\ cancelReq' = [cancelReq EXCEPT ![t] = "none"]
    /\ ret' = Raised("Cancelled", key[t])
    /\ UNCHANGED <<contained, maxLoads, store, hits, misses, loaderCalls, calls>>
    /\ UNCHANGED poolVars

\* mutant: the membership test is inverted
StoreFillIfPresent(k, v) ==
    IF store[k] # Absent THEN [store EXCEPT ![k] = v] ELSE store

\* mutant: the write is unconditional, the last writer wins
StoreFillAlways(k, v) == [store EXCEPT ![k] = v]

\* `if key not in self._store: self._store[key] = value`
StoreFill(k, v) ==
    IF store[k] = Absent THEN [store EXCEPT ![k] = v] ELSE store

\* mutant: get returns what the store holds after the fill, not its own value
LoaderReturnStored(t, v) ==
    /\ pc[t] = "loading"
    /\ cancelReq[t] = "none"
    /\ GateRelease
    /\ store' = StoreFill(key[t], v)
    /\ pc' = [pc EXCEPT ![t] = "idle"]
    /\ key' = [key EXCEPT ![t] = NoKey]
    /\ ret' = Ret("value", key[t], store'[key[t]], 0, 1, 0)
    /\ UNCHANGED <<contained, maxLoads, gateWaiters, hits, misses, loaderCalls,
                   cancelReq, calls>>
    /\ UNCHANGED poolVars

\* The loader returns v: the gate slot is released, the value is stored if the
\* key is still absent, and get returns [v, 0, 1].
LoaderReturn(t, v) ==
    /\ pc[t] = "loading"
    /\ cancelReq[t] = "none"
    /\ GateRelease
    /\ store' = StoreFill(key[t], v)
    /\ pc' = [pc EXCEPT ![t] = "idle"]
    /\ key' = [key EXCEPT ![t] = NoKey]
    /\ ret' = Ret("value", key[t], v, 0, 1, 0)
    /\ UNCHANGED <<contained, maxLoads, gateWaiters, hits, misses, loaderCalls,
                   cancelReq, calls>>
    /\ UNCHANGED poolVars

\* mutant: a failed fill takes its miss back
LoaderFailUncounted(t) ==
    /\ pc[t] = "loading"
    /\ cancelReq[t] = "none"
    /\ GateRelease
    /\ misses' = misses - 1
    /\ pc' = [pc EXCEPT ![t] = "idle"]
    /\ key' = [key EXCEPT ![t] = NoKey]
    /\ ret' = Raised("LoaderFailure", key[t])
    /\ UNCHANGED <<contained, maxLoads, gateWaiters, store, hits,
                   loaderCalls, cancelReq, calls>>
    /\ UNCHANGED poolVars

\* mutant: the gate slot is given back on the normal path only
LoaderFailKeepsSlot(t) ==
    /\ pc[t] = "loading"
    /\ cancelReq[t] = "none"
    /\ pc' = [pc EXCEPT ![t] = "idle"]
    /\ key' = [key EXCEPT ![t] = NoKey]
    /\ ret' = Raised("LoaderFailure", key[t])
    /\ UNCHANGED <<contained, maxLoads, gateValue, gateWaiters, fut, store, hits,
                   misses, loaderCalls, cancelReq, calls>>
    /\ UNCHANGED poolVars

\* The loader raises: the gate slot is released and the exception leaves get.
LoaderFail(t) ==
    /\ pc[t] = "loading"
    /\ cancelReq[t] = "none"
    /\ GateRelease
    /\ pc' = [pc EXCEPT ![t] = "idle"]
    /\ key' = [key EXCEPT ![t] = NoKey]
    /\ ret' = Raised("LoaderFailure", key[t])
    /\ UNCHANGED <<contained, maxLoads, gateWaiters, store, hits, misses,
                   loaderCalls, cancelReq, calls>>
    /\ UNCHANGED poolVars

\* The get cancelled inside its loader runs again: the gate slot is released
\* and CancelledError leaves get.
LoaderCancelled(t) ==
    /\ pc[t] = "loading"
    /\ cancelReq[t] = "cancel"
    /\ GateRelease
    /\ pc' = [pc EXCEPT ![t] = "idle"]
    /\ key' = [key EXCEPT ![t] = NoKey]
    /\ cancelReq' = [cancelReq EXCEPT ![t] = "none"]
    /\ ret' = Raised("Cancelled", key[t])
    /\ UNCHANGED <<contained, maxLoads, gateWaiters, store, hits, misses,
                   loaderCalls, calls>>
    /\ UNCHANGED poolVars

\* mutant: the size is taken after the store was emptied
StoreSizeAfterClear == Cardinality({k \in Keys : store'[k] # Absent})

\* len(self._store)
StoreSize == Cardinality({k \in Keys : store[k] # Absent})

\* mutant: clear spares the keys that a running loader is about to fill
ClearSparesLoading ==
    /\ calls < MaxCalls
    /\ calls' = calls + 1
    /\ store' = [k \in Keys |->
                    IF \E t \in Tasks : pc[t] = "loading" /\ key[t] = k
                    THEN store[k] ELSE Absent]
    /\ ret' = Ret("evicted", NoKey, "none", 0, 0, StoreSize)
    /\ UNCHANGED <<contained, maxLoads, gateValue, gateWaiters, hits, misses,
                   loaderCalls, key>>
    /\ UNCHANGED <<pc, fut, cancelReq>>
    /\ UNCHANGED poolVars

\* mutant: clear also resets the statistics
ClearResetsCounters ==
    /\ calls < MaxCalls
    /\ calls' = calls + 1
    /\ store' = [k \in Keys |-> Absent]
    /\ hits' = 0
    /\ misses' = 0
    /\ ret' = Ret("evicted", NoKey, "none", 0, 0, StoreSize)
    /\ UNCHANGED <<contained, maxLoads, gateValue, gateWaiters, loaderCalls, key>>
    /\ UNCHANGED <<pc, fut, cancelReq>>
    /\ UNCHANGED poolVars

\* Cache.clear: size = len(store); store.clear(); return size
Clear ==
    /\ calls < MaxCalls
    /\ calls' = calls + 1
    /\ store' = [k \in Keys |-> Absent]
    /\ ret' = Ret("evicted", NoKey, "none", 0, 0, StoreSize)
    /\ UNCHANGED <<contained, maxLoads, gateValue, gateWaiters, hits, misses,
                   loaderCalls, key>>
    /\ UNCHANGED <<pc, fut, cancelReq>>
    /\ UNCHANGED poolVars

NextCache ==
    \/ \E t \in Tasks :
        \/ \E k \in Keys : Get(t, k)
        \/ GateResume(t)
        \/ GateCancelled(t)
        \/ \E v \in Values : LoaderReturn(t, v)
        \/ LoaderFail(t)
        \/ LoaderCancelled(t)
        \/ Cancel(t)
    \/ Clear

InitCache == Init /\ maxConnections = MaxPoolSize

SpecCache == InitCache /\ [][NextCache]_vars

\* CONTAINED_CACHE=1
InitGate == InitCache /\ contained

\* The cache under the contained policy, where the event loop runs every get
\* that is ready (resumed or cancelled at the gate, cancelled inside its
\* loader) and every loader invocation that is not cancelled returns or fails.
FairCache ==
    /\ InitGate
    /\ [][NextCache]_vars
    /\ \A t \in Tasks :
          /\ WF_vars(GateResume(t))
          /\ WF_vars(GateCancelled(t))
          /\ WF_vars(LoaderCancelled(t))
          /\ WF_vars(LoaderFail(t) \/ \E v \in Values : LoaderReturn(t, v))

\* ---- both components in one process set ----------------------------------

Next == NextPool \/ NextCache

Spec == Init /\ [][Next]_vars

\* The same with the containment toggle on and the tightest gate
InitBoth == Init /\ contained /\ maxLoads = 1

SpecBoth == InitBoth /\ [][Next]_vars

\* ---- claims ----------------------------------------------------------------

\* C1: for every interleaving of acquire (with or without deadline), timeout,
\* cancellation and release, 0 <= active <= capacity in every reachable state.
ActiveWithinCapacity == 0 <= active /\ active <= maxConnections

\* the pool is full, a caller is suspended in acquire and a timeout was counted
FullPoolWithWaiter ==
    /\ active = maxConnections
    /\ timeoutCount > 0
    /\ \E t \in Tasks : pc[t] = "acquiring"


InFlight == {t \in Tasks : pc[t] = "loading"}

\* C2: under the contained policy at most maxLoads loader invocations are in
\* flight (started and not yet returned, failed or cancelled) at any instant,
\* whatever the number of concurrent get calls and their keys; with one gate
\* slot a second loader therefore starts only once the first has completed.
LoadsWithinGate == contained => Cardinality(InFlight) <= maxLoads

\* one gate slot: a loader runs for one key while a get for another key waits
SecondLoaderWaits ==
    /\ contained
    /\ maxLoads = 1
    /\ \E t, u \in Tasks :
          /\ pc[t] = "loading"
          /\ pc[u] = "gate"
          /\ key[t] # key[u]

\* slots of the pool semaphore that are free or handed to a waiter that has
\* not run yet
PoolSlots ==
    semValue + Cardinality({t \in Tasks : pc[t] = "acquiring" /\ fut[t] = "granted"})

TimeoutStep ==
    \A t \in Tasks :
        /\ (pc[t] = "idle" /\ pc'[t] = "acquiring")
              => /\ waiting' = waiting + 1
                 /\ UNCHANGED <<active, timeoutCount, semValue>>
        /\ (cancelReq[t] = "none" /\ cancelReq'[t] = "timeout")
              => UNCHANGED <<active, waiting, timeoutCount, semValue>>
        /\ (pc[t] = "acquiring" /\ cancelReq[t] = "timeout" /\ pc'[t] # "acquiring")
              => /\ ret' = Raised("PoolTimeout", NoKey)
                 /\ pc'[t] = "idle"
                 /\ timeoutCount' = timeoutCount + 1
                 /\ waiting' = waiting - 1
                 /\ active' = active
                 /\ PoolSlots' = PoolSlots

\* C3: an acquire with a deadline issued on a full pool whose deadline elapses
\* before any release raises PoolTimeout, returns no handle, increments
\* timeoutCount by exactly 1, and the steps of the call (entering the wait,
\* the deadline, leaving the wait) together leave active, waiting and the
\* semaphore as they were before the call.
TimeoutLeavesNoTrace == [][TimeoutStep]_vars

\* a deadline acquire on a full pool has just timed out
TimedOutOnFullPool ==
    /\ ret.kind = "PoolTimeout"
    /\ timeoutCount = 1
    /\ active = maxConnections
    /\ waiting = 0
    /\ semValue = 0

ReleaseCalled(t) ==
    pc[t] = "holding" /\ (relCalls'[t] = relCalls[t] + 1 \/ pc'[t] = "idle")

ReleaseStep ==
    \A t \in Tasks :
        ReleaseCalled(t) =>
            /\ released'[t]
            /\ IF released[t]
               THEN UNCHANGED <<active, semValue, semWaiters, fut, waiting>>
               ELSE /\ active' = active - 1
                    /\ PoolSlots' = PoolSlots + 1

\* C4: however often release is called on a handle (explicitly or by
\* __aexit__), the first call decrements active by one and returns one slot,
\* and every later call changes nothing in the pool.
ReleaseIsIdempotent == [][ReleaseStep]_vars

\* release has been called twice on a handle that is still in scope
ReleasedTwice ==
    \E t \in Tasks : pc[t] = "holding" /\ released[t] /\ relCalls[t] = 2

\* a step that begins a get call: exactly one of hits, misses moves
GetIssued == hits' + misses' # hits + misses

HitMissStep ==
    /\ \A k \in Keys :
          /\ (store[k] = Absent /\ store'[k] # Absent)
                => ret' = Ret("value", k, store'[k], 0, 1, 0)
          /\ (store[k] # Absent /\ store'[k] # store[k])
                => ret'.kind = "evicted"
          /\ (ret'.kind = "value" /\ ret'.key = k)
                => /\ store'[k] # Absent
                   /\ ret'.hit + ret'.miss = 1
                   /\ ret'.hit = 1 <=> GetIssued
    /\ GetIssued =>
          \/ /\ hits' = hits + 1
             /\ UNCHANGED <<misses, loaderCalls, store, pc>>
             /\ ret'.kind = "value"
             /\ store[ret'.key] # Absent
             /\ ret'.value = store[ret'.key]
          \/ /\ misses' = misses + 1
             /\ hits' = hits
             /\ \E t \in Tasks :
                   /\ key[t] = NoKey
                   /\ key'[t] # NoKey
                   /\ store[key'[t]] = Absent

\* C5: a get issued for a key that is absent is a miss (misses + 1) and, when
\* it returns, has wasHit = 0 and leaves the key stored; a get issued for a key
\* that is stored is a hit (hits + 1) that returns the stored value at once
\* without invoking the loader; a stored key stays stored until a clear.  So
\* the first successful get of a key is a miss and every later one a hit.
FirstGetMissesThenHits == [][HitMissStep]_vars

\* a hit has just been returned for a key that one earlier get had missed
HitAfterMiss ==
    /\ ret.kind = "value"
    /\ ret.hit = 1
    /\ hits = 1
    /\ misses = 1
    /\ loaderCalls = 1

Stored == {k \in Keys : store[k] # Absent}

ClearStep ==
    /\ ret'.kind = "evicted" =>
          /\ ret'.count = Cardinality(Stored)
          /\ \A k \in Keys : store'[k] = Absent
          /\ UNCHANGED <<hits, misses, loaderCalls, pc>>
    /\ (GetIssued /\ Stored = {}) =>
          /\ misses' = misses + 1
          /\ hits' = hits
          /\ \E t \in Tasks : pc[t] = "idle" /\ pc'[t] \in {"loading", "gate"}

\* C6: clear returns the number of entries the store held and leaves it empty,
\* without touching hits and misses; on an empty store it returns 0; a get
\* issued while the store is empty is a miss that goes on to the loader.
ClearEmptiesAndCounts == [][ClearStep]_vars

\* clear has just evicted at least one entry
ClearedNonEmpty == ret.kind = "evicted" /\ ret.count >= 1 /\ misses >= 1

LoaderFailStep ==
    /\ \A t \in Tasks :
          (pc[t] = "loading" /\ cancelReq[t] = "none" /\ pc'[t] # "loading"
             /\ ret'.kind # "value")
            => /\ ret' = Raised("LoaderFailure", key[t])
               /\ pc'[t] = "idle"
               /\ UNCHANGED <<store, hits, misses, loaderCalls>>
    /\ misses' >= misses
    /\ loaderCalls' # loaderCalls =>
          /\ loaderCalls' = loaderCalls + 1
          /\ \E t \in Tasks : pc[t] \in {"idle", "gate"} /\ pc'[t] = "loading"

\* C7: when the loader of a get fails, the failure leaves get, the store, hits
\* and misses are as they were before the failure (the miss counted at the
\* start of the call stays counted) and the loader is not invoked again.
LoaderFailurePropagates == [][LoaderFailStep]_vars

\* the only get issued so far has just failed in its loader
OnlyGetFailed ==
    /\ ret.kind = "LoaderFailure"
    /\ misses = 1
    /\ hits = 0
    /\ loaderCalls = 1
    /\ \A k \in Keys : store[k] = Absent

HandOverStep ==
    /\ (active' = active - 1 /\ Pending(semWaiters, fut) # {})
          => \E u \in Tasks : fut[u] = "pending" /\ fut'[u] = "granted"
    /\ \A t \in Tasks :
          (pc[t] = "acquiring" /\ pc'[t] = "holding")
            => /\ active' = active + 1
               /\ waiting' = waiting - 1
               /\ ret'.kind = "handle"

\* C8: on a full pool a release hands the slot to a blocked caller, which then
\* takes it (active + 1, waiting - 1); a caller blocked in an acquire without
\* deadline eventually holds a connection unless it is cancelled, as long as
\* ready tasks run and holders leave their `async with` block.
BlockedCallerGetsSlot ==
    /\ [][HandOverStep]_vars
    /\ \A t \in Tasks :
          (pc[t] = "acquiring" /\ ~hasDeadline[t])
            ~> (pc[t] = "holding" \/ cancelReq[t] = "cancel")

\* capacity 2, three callers: one holder has released and the slot is handed to
\* the caller that was blocked without a deadline
SlotHandedToWaiter ==
    /\ maxConnections = 2
    /\ active = 1
    /\ waiting = 1
    /\ calls = 3
    /\ \E t \in Tasks :
          pc[t] = "acquiring" /\ fut[t] = "granted" /\ ~hasDeadline[t]

\* C9: under the speed-first policy no get ever waits at a gate and every miss
\* has started its own loader, so n concurrent gets of one absent key make n
\* loader invocations and n misses.
SpeedFirstNeverCoalesces ==
    ~contained =>
        /\ \A t \in Tasks : pc[t] # "gate"
        /\ loaderCalls = misses
        /\ \A t \in Tasks : key[t] # NoKey => pc[t] = "loading"

\* every task is inside the loader for the same absent key
AllLoadSameKey ==
    /\ ~contained
    /\ \A t \in Tasks : pc[t] = "loading" /\ key[t] = "k1"
    /\ store["k1"] = Absent
    /\ misses = NumTasks
    /\ loaderCalls = NumTasks

\* slots of the gate that are free or handed to a waiter that has not run yet
GateSlots ==
    gateValue + Cardinality({t \in Tasks : pc[t] = "gate" /\ fut[t] = "granted"})

CancelStep ==
    \A t \in Tasks :
        /\ (cancelReq[t] = "none" /\ cancelReq'[t] = "cancel")
              => UNCHANGED <<active, waiting, timeoutCount, semValue, gateValue>>
        /\ (pc[t] = "acquiring" /\ cancelReq[t] = "cancel" /\ pc'[t] # "acquiring")
              => /\ ret' = Raised("Cancelled", NoKey)
                 /\ pc'[t] = "idle"
                 /\ waiting' = waiting - 1
                 /\ active' = active
                 /\ timeoutCount' = timeoutCount
                 /\ PoolSlots' = PoolSlots
                 /\ \A i \in 1..Len(semWaiters') : semWaiters'[i] # t
        /\ (pc[t] = "gate" /\ cancelReq[t] = "cancel" /\ pc'[t] # "gate")
              => /\ ret' = Raised("Cancelled", key[t])
                 /\ pc'[t] = "idle"
                 /\ GateSlots' = GateSlots
                 /\ \A i \in 1..Len(gateWaiters') : gateWaiters'[i] # t
                 /\ UNCHANGED <<store, hits, misses, loaderCalls>>

\* C10: a caller cancelled while blocked in acquire leaves with CancelledError
\* and without a handle, waiting goes back by the one it had added, active and
\* timeoutCount are untouched and no pool slot is lost; a get cancelled while
\* waiting at the gate leaves the gate's slots as they were.
CancelledWaitLeavesNoTrace == [][CancelStep]_vars

\* a get was cancelled at the gate (a miss without loader and nobody at the
\* gate), and a blocked acquire has just been cancelled on a full pool
BothWaitsCancelled ==
    /\ ret = Raised("Cancelled", NoKey)
    /\ active = maxConnections
    /\ waiting = 0
    /\ timeoutCount = 0
    /\ misses = 2
    /\ loaderCalls = 1
    /\ \A t \in Tasks : pc[t] # "gate"

\* acquire calls that have entered the wait for a slot and not yet left it
InWait == {t \in Tasks : pc[t] = "acquiring"}

\* handles handed out by a successful acquire and not yet released
LiveHandles == {t \in Tasks : pc[t] = "holding" /\ ~released[t]}

\* C11: in every state between two steps of the tasks, waiting is the number
\* of acquire calls inside the wait and active the number of handles handed out
\* and not yet released; a caller that was handed a slot is counted in waiting
\* until it is counted in active, and a slot handed on by a release is no
\* longer counted in active.
CountersMatchCalls ==
    /\ waiting = Cardinality(InWait)
    /\ active = Cardinality(LiveHandles)
    /\ \A t \in Tasks :
          (pc[t] \in {"acquiring", "holding"} /\ fut[t] = "granted")
            => pc[t] = "acquiring"
    /\ active + Cardinality({t \in InWait : fut[t] = "granted"}) <= maxConnections

\* a released slot has been handed to a blocked caller that has not run yet,
\* while another caller still holds a connection
HandedOverNotYetRun ==
    /\ maxConnections = 2
    /\ active = 1
    /\ waiting = 1
    /\ \E t, u \in Tasks :
          /\ pc[t] = "acquiring" /\ fut[t] = "granted"
          /\ pc[u] = "holding" /\ ~released[u]
    /\ \E t \in Tasks : pc[t] = "holding" /\ released[t]

WaitStep ==
    /\ \A t \in Tasks :
          /\ (pc[t] = "idle" /\ pc'[t] = "acquiring") => waiting' = waiting + 1
          /\ (pc[t] = "acquiring" /\ pc'[t] # "acquiring")
                => /\ waiting' = waiting - 1
                   /\ ret'.kind \in {"handle", "PoolTimeout", "Cancelled"}
                   /\ pc'[t] = IF ret'.kind = "handle" THEN "holding" ELSE "idle"
    /\ (\A t \in Tasks : (pc[t] = "acquiring") <=> (pc'[t] = "acquiring"))
          => waiting' = waiting

\* C12: waiting goes up by one when an acquire enters the wait and down by one
\* when it leaves it, by success, timeout or cancellation, and moves on no
\* other step; waiting is never negative and is 0 whenever no acquire call is
\* inside the wait.
WaitingCountsWaiters ==
    /\ [][WaitStep]_vars
    /\ [](waiting >= 0)
    /\ []((\A t \in Tasks : pc[t] # "acquiring") => waiting = 0)

\* one wait has timed out, a second has just been cancelled, and nobody waits
AllWaitsLeft ==
    /\ ret = Raised("Cancelled", NoKey)
    /\ timeoutCount = 1
    /\ active >= 1
    /\ waiting = 0
    /\ \A t \in Tasks : pc[t] # "acquiring"

FirstWriterStep ==
    /\ \A k \in Keys :
          store[k] # Absent =>
              \/ store'[k] = store[k]
              \/ ret'.kind = "evicted" /\ \A j \in Keys : store'[j] = Absent
    /\ \A t \in Tasks :
          (pc[t] = "loading" /\ pc'[t] = "idle" /\ store[key[t]] # Absent)
            => store'[key[t]] = store[key[t]]

\* C13: once the store holds a value for a key, every later completion of a
\* get for that key leaves that value in place; only a clear, which empties
\* the whole store, changes or removes the value of a stored key.
FirstWriterWins == [][FirstWriterStep]_vars

\* a miss has just completed with a value other than the one an earlier writer
\* stored, after a hit had already read the stored value
LateWriterLost ==
    /\ ret.kind = "value"
    /\ ret.miss = 1
    /\ store[ret.key] # Absent
    /\ store[ret.key] # ret.value
    /\ hits >= 1

OwnValueStep ==
    \A t \in Tasks :
        (pc[t] = "loading" /\ pc'[t] = "idle" /\ ret'.kind = "value")
          => /\ ret'.key = key[t]
             /\ ret'.value \in Values
             /\ ret'.hit = 0
             /\ ret'.miss = 1
             /\ store'[key[t]] =
                   IF store[key[t]] = Absent THEN ret'.value ELSE store[key[t]]

\* whatever value the loader of a running miss computes, get can return it
OwnValueOffered ==
    \A t \in Tasks :
        (pc[t] = "loading" /\ cancelReq[t] = "none") =>
            \A v \in Values :
                ENABLED (NextCache /\ pc'[t] = "idle"
                           /\ ret' = Ret("value", key[t], v, 0, 1, 0))

\* C14: a get on the miss path returns the value its own loader computed, with
\* wasHit = 0, whether or not the store keeps that value: the store takes it
\* only if the key is still absent, and a concurrent miss of the same key that
\* finishes later still receives its own value.
MissReturnsOwnValue ==
    /\ [][OwnValueStep]_vars
    /\ []OwnValueOffered

\* two concurrent misses of k1 computed v1 and v2: the second caller has just
\* received v2 while the store keeps v1
SecondMissKeepsOwnValue ==
    /\ ret = Ret("value", "k1", "v2", 0, 1, 0)
    /\ store["k1"] = "v1"
    /\ misses = 2
    /\ hits = 0

\* clear has just completed
JustCleared == ret.kind = "evicted"

\* what the get calls that are past the fast-path check find after a clear
AfterClear ==
    JustCleared =>
        /\ \A k \in Keys : store[k] = Absent
        /\ \A t \in Tasks :
              /\ (pc[t] = "loading" /\ cancelReq[t] = "none") =>
                    \A v \in Values :
                        ENABLED (NextCache /\ pc'[t] = "idle"
                                   /\ ret' = Ret("value", key[t], v, 0, 1, 0)
                                   /\ store'[key[t]] = v)
              /\ (pc[t] = "gate" /\ fut[t] = "granted" /\ cancelReq[t] = "none") =>
                    ENABLED (NextCache /\ pc'[t] = "loading"
                               /\ loaderCalls' = loaderCalls + 1)

ClearVsGetStep ==
    /\ ret'.kind = "evicted" =>
          UNCHANGED <<pc, key, fut, cancelReq, gateValue, gateWaiters,
                      loaderCalls, hits, misses>>
    /\ (JustCleared /\ GetIssued) =>
          /\ misses' = misses + 1
          /\ hits' = hits
          /\ ret'.kind # "value"
    /\ \A t \in Tasks :
          (pc[t] = "loading" /\ pc'[t] = "idle" /\ ret'.kind = "value"
             /\ store[key[t]] = Absent)
            => store'[key[t]] = ret'.value

\* C15: a clear leaves the get calls that are past the fast-path check as they
\* were: each still runs its loader, stores its value if the key is absent and
\* returns it; clear empties the store in one step, so a get that checks the
\* store once clear has completed finds it empty and misses.
ClearSparesInFlightGets ==
    /\ [][ClearVsGetStep]_vars
    /\ []AfterClear

\* a clear has just evicted an entry while one get runs its loader and another
\* waits at the gate
ClearedUnderLoader ==
    /\ JustCleared
    /\ ret.count >= 1
    /\ \E t, u \in Tasks :
          /\ pc[t] = "loading" /\ cancelReq[t] = "none"
          /\ pc[u] = "gate"

\* get calls past the fast-path check that have not yet returned or raised
GetsInFlight == {t \in Tasks : pc[t] \in {"gate", "loading"}}

GateExitStep ==
    \A t \in Tasks :
        (contained /\ pc[t] = "loading" /\ pc'[t] # "loading")
          => /\ pc'[t] = "idle"
             /\ ret'.kind \in {"value", "LoaderFailure", "Cancelled"}
             /\ ret'.key = key[t]
             /\ GateSlots' = GateSlots + 1
             /\ Cardinality(InFlight') = Cardinality(InFlight) - 1

\* C16: under the contained policy the step on which a loader exits, by
\* return, failure or cancellation, gives the gate slot back together with
\* handing control back to the caller; the slots free or handed over plus the
\* running loaders always make maxLoads, so the gate is entirely free whenever
\* no get is in flight, also after failed loaders.
GateSlotAlwaysReturned ==
    /\ [][GateExitStep]_vars
    /\ [](contained => GateSlots + Cardinality(InFlight) = maxLoads)
    /\ []((contained /\ GetsInFlight = {}) => gateValue = maxLoads)

\* one gate slot: after a second loader failed nobody is in flight and the
\* slot is free again
GateFreeAfterFailures ==
    /\ contained
    /\ maxLoads = 1
    /\ ret.kind = "LoaderFailure"
    /\ loaderCalls = 2
    /\ GetsInFlight = {}
    /\ gateValue = 1
    /\ \A k \in Keys : store[k] = Absent

\* a step that begins a get call (the only other call on the cache is clear)
GetCalled == calls' = calls + 1 /\ ret'.kind # "evicted"

CounterStep ==
    /\ hits' >= hits
    /\ misses' >= misses
    /\ GetCalled =>
          \/ hits' = hits + 1 /\ misses' = misses
          \/ hits' = hits /\ misses' = misses + 1
    /\ ret'.kind = "evicted" => UNCHANGED <<hits, misses>>
    /\ calls' = calls => UNCHANGED <<hits, misses>>

\* C17: hits and misses never decrease; the step that begins a get adds 1 to
\* exactly one of them, and neither clear nor any later step of a get (gate,
\* loader return, failure, cancellation) changes them.
CountersOnlyGrow == [][CounterStep]_vars

\* a clear has just run after at least one hit and one miss
ClearedWithStatistics ==
    /\ ret.kind = "evicted"
    /\ hits >= 1
    /\ misses >= 1
    /\ hits + misses = calls - 1

SlotStep ==
    \A t \in Tasks :
        (pc[t] = "acquiring" /\ pc'[t] = "idle")
          => /\ PoolSlots' = PoolSlots
             /\ LiveHandles' = LiveHandles

\* C18: the free slots of the pool semaphore (counting a slot handed to a
\* caller that has not run yet) plus the callers that hold an unreleased handle
\* make the capacity in every reachable state; an acquire that times out or is
\* cancelled takes no slot with it; so with no acquire in flight and every
\* handle released the semaphore is back at capacity and active is 0.
PoolSlotsConserved ==
    /\ [](PoolSlots + Cardinality(LiveHandles) = maxConnections)
    /\ [][SlotStep]_vars
    /\ []((InWait = {} /\ LiveHandles = {})
            => (semValue = maxConnections /\ active = 0))

\* after a timeout and further calls every caller is gone and the pool is
\* whole again
AllSlotsBack ==
    /\ \A t \in Tasks : pc[t] = "idle"
    /\ timeoutCount >= 1
    /\ calls >= 3
    /\ semValue = maxConnections
    /\ active = 0
    /\ waiting = 0

\* get calls suspended at the gate
AtGate == {t \in Tasks : pc[t] = "gate"}

\* C19 as stated: in both policies the number of loader invocations started is
\* misses minus the number of get calls still waiting at the gate (a get that
\* missed invokes its loader exactly once, without re-checking the store).
LoadersAreMissesLessWaiting == loaderCalls = misses - Cardinality(AtGate)

\* misses that have neither started a loader nor wait at the gate
MissesWithoutLoader == misses - Cardinality(AtGate) - loaderCalls

LoaderCountStep ==
    /\ \A t \in Tasks :
          /\ (pc[t] = "gate" /\ pc'[t] # "gate" /\ cancelReq[t] # "cancel")
                => /\ pc'[t] = "loading"
                   /\ loaderCalls' = loaderCalls + 1
                   /\ UNCHANGED <<store, hits, misses>>
          /\ (pc[t] = "gate" /\ pc'[t] # "gate" /\ cancelReq[t] = "cancel")
                => /\ pc'[t] = "idle"
                   /\ ret'.kind = "Cancelled"
                   /\ loaderCalls' = loaderCalls
                   /\ MissesWithoutLoader' = MissesWithoutLoader + 1
          /\ (pc[t] = "loading" /\ pc'[t] # "loading") => pc'[t] = "idle"
    /\ loaderCalls' # loaderCalls =>
          /\ loaderCalls' = loaderCalls + 1
          /\ Cardinality(InFlight' \ InFlight) = 1
    /\ (\A t \in Tasks : ~(pc[t] = "gate" /\ pc'[t] = "idle"))
          => MissesWithoutLoader' = MissesWithoutLoader

\* C19, amended: a get that missed starts its loader exactly once, directly or
\* when it obtains its gate slot, without looking at the store again, unless
\* it is cancelled while waiting at the gate: then its miss stays counted and
\* no loader is started.  The loader invocations started are misses minus the
\* gets waiting at the gate minus the gets cancelled at the gate; under the
\* speed-first policy they equal misses.
LoadersAreMissesLessWaitingAndCancelled ==
    /\ [][LoaderCountStep]_vars
    /\ [](MissesWithoutLoader >= 0)
    /\ [](~contained => MissesWithoutLoader = 0)

\* one gate slot: a get that waited at the gate runs its loader although the
\* key has been stored in the meantime
LoadsStoredKey ==
    /\ contained
    /\ maxLoads = 1
    /\ loaderCalls = misses
    /\ \E t \in Tasks : pc[t] = "loading" /\ store[key[t]] # Absent

\* C20: under the contained policy, when every loader invocation returns or
\* fails and ready tasks run, no get stays at the gate or in its loader for
\* ever, however many callers are in flight: whenever get calls are in flight,
\* a state follows in which every one of them has returned or raised.
EveryGetCompletes ==
    (contained /\ GetsInFlight # {}) ~> (GetsInFlight = {})

\* one gate slot: a loader has just failed, the slot is handed to the first
\* waiter and a second get still waits behind it
GateMovesOn ==
    /\ contained
    /\ maxLoads = 1
    /\ ret.kind = "LoaderFailure"
    /\ InFlight = {}
    /\ \E t, u \in Tasks :
          /\ pc[t] = "gate" /\ fut[t] = "granted"
          /\ pc[u] = "gate" /\ fut[u] = "pending"

====
